---------------------------- MODULE Spec2Model ----------------------------
(***************************************************************************)
(* A model of pycomputrac (src/pycomputrac/computrac.py): the reference    *)
(* catalog kept by ComputracDir (the ticker index, the name index and the  *)
(* list of master files read), the two index-file readers, the lookups,    *)
(* and the per-security data reader get_raw_data.                          *)
(*                                                                         *)
(* Conventions.  A Python str or bytes value is a sequence of character    *)
(* codes.  A Python float that came out of a 4-byte single is the 4-byte   *)
(* little-endian IEEE-754 image <<b0, b1, b2, b3>> of that single.  A      *)
(* Python tuple is a TLA+ tuple, so Python's t[5] is t[6] here.  A path is *)
(* a record [dir, base].  The outcome of a call is a record                *)
(* [exc, site, args, value]: exc = "none" for a normal return, otherwise   *)
(* the class of the exception that left the call.                          *)
(***************************************************************************)
EXTENDS Integers, Sequences, FiniteSets, TLC

VARIABLES
    num_files,        \* ComputracDir.num_files
    max_file_num,     \* ComputracDir.max_file_num
    ticker_refdata,   \* ComputracDir._ticker_refdata: symbol -> record
    ticker_keys,      \* the insertion order of _ticker_refdata's keys
    name_tickers,     \* ComputracDir._name_tickers: name -> list of symbols
    name_keys,        \* the insertion order of _name_tickers' keys
    master_files,     \* ComputracDir._master_files
    call,             \* the last call made: its name and its argument
    ret,              \* what the last call handed to its caller
    pc,               \* "idle", or where get_raw_data is: "header", "loop"
    datafile,         \* the data file get_raw_data opened last
    handle,           \* "closed" or "open": get_raw_data's file handle
    opens,            \* how often the current/last get_raw_data call opened
    reads,            \* how many record reads the call has issued
    buf,              \* what the last record read returned: "record" (it is
                      \* datafile.recs[reads]), "short", "empty"; or "none"
    rec_num,          \* get_raw_data's rec_num
    ohlc_data,        \* get_raw_data's ohlc_data
    again             \* history: the current/last get_raw_data call follows
                      \* a get_raw_data call that returned data for the same
                      \* asset id

catvars == <<num_files, max_file_num, ticker_refdata, ticker_keys,
             name_tickers, name_keys, master_files>>
rdvars == <<pc, datafile, handle, opens, reads, buf, rec_num, ohlc_data,
            again>>
vars == <<num_files, max_file_num, ticker_refdata, ticker_keys,
          name_tickers, name_keys, master_files, call, ret,
          pc, datafile, handle, opens, reads, buf, rec_num, ohlc_data,
          again>>

----------------------------------------------------------------------------
(* Bounds of the model.                                                    *)

\* the most records an index file holds
MaxRecs == 2
\* the most complete records a data file holds, and the largest header count
MaxDataRecs == 2
\* num_files is only ever added to by read_xmaster_file; merges stop here
MaxNumFiles == 2

----------------------------------------------------------------------------
(* Python built-ins the code uses.                                         *)

Min(a, b) == IF a < b THEN a ELSE b
Max(a, b) == IF a < b THEN b ELSE a

RECURSIVE Pow2(_)
Pow2(n) == IF n <= 0 THEN 1 ELSE 2 * Pow2(n - 1)

\* bytes.find(byte): the 0-based index of the first occurrence, or -1
RECURSIVE FindFrom(_, _, _)
FindFrom(s, c, i) ==
    IF i > Len(s) THEN -1
    ELSE IF s[i] = c THEN i - 1
    ELSE FindFrom(s, c, i + 1)

find(s, c) == FindFrom(s, c, 1)

\* s[0:e], with Python's reading of a negative e
PySliceTo(s, e) ==
    LET stop == IF e >= 0 THEN Min(e, Len(s)) ELSE Max(Len(s) + e, 0)
    IN  SubSeq(s, 1, stop)

\* bytes.decode() on the ASCII bytes the model draws fields from: character
\* i of the str has the code of byte i
decode(b) == [i \in 1..Len(b) |-> b[i]]

\* str < str, by code point
LexLess(a, b) ==
    \E k \in 1..(Min(Len(a), Len(b)) + 1) :
        /\ \A j \in 1..(k - 1) : a[j] = b[j]
        /\ \/ k = Len(a) + 1 /\ k <= Len(b)
           \/ k <= Len(a) /\ k <= Len(b) /\ a[k] < b[k]

\* os.path.dirname and os.path.join on [dir, base] paths
dirname(p) == p.dir
join(d, b) == [dir |-> d, base |-> b]

\* '%d' % n for n >= 0: the decimal digits of n
RECURSIVE Digits(_)
Digits(n) ==
    IF n < 10 THEN <<48 + n>> ELSE Digits(n \div 10) \o <<48 + (n % 10)>>

\* 'F%d.dat' % n and 'F%d.mwd' % n
FDat(n) == <<70>> \o Digits(n) \o <<46, 100, 97, 116>>
FMwd(n) == <<70>> \o Digits(n) \o <<46, 109, 119, 100>>

\* Python evaluates an expression once and binds its value to a name: F
\* applied to the value of e
Bind(e, F(_)) == CHOOSE y \in {F(x) : x \in {e}} : TRUE

Ok(v) == [exc |-> "none", site |-> "", args |-> <<>>, value |-> v]
Raise(e, s, a) == [exc |-> e, site |-> s, args |-> a, value |-> <<>>]

----------------------------------------------------------------------------
(* strip_null, lines 8-18.                                                 *)

NUL == 0

strip_null(c_string) ==
    LET end_idx == find(c_string, NUL)
    IN  PySliceTo(c_string, end_idx)

----------------------------------------------------------------------------
(* datetime.date(y, m, d): the triple, or ValueError.                      *)

IsLeap(y) == (y % 4 = 0) /\ ((y % 100 # 0) \/ (y % 400 = 0))

DaysInMonth(y, m) ==
    IF m = 2 THEN (IF IsLeap(y) THEN 29 ELSE 28)
    ELSE IF m \in {4, 6, 9, 11} THEN 30 ELSE 31

\* datetime.MINYEAR is 1 and datetime.MAXYEAR is 9999
ValidDate(y, m, d) ==
    /\ 1 <= y /\ y <= 9999
    /\ 1 <= m /\ m <= 12
    /\ 1 <= d /\ d <= DaysInMonth(y, m)

\* datetime.date putting 1900-01-01 in place of an impossible date
date_Lenient(y, m, d) ==
    IF ValidDate(y, m, d) THEN Ok(<<y, m, d>>)
    ELSE Ok(<<1900, 1, 1>>)

date(y, m, d) ==
    IF ValidDate(y, m, d) THEN Ok(<<y, m, d>>)
    ELSE Raise("ValueError", "date", <<>>)

----------------------------------------------------------------------------
(* Floats.  A single is its little-endian image <<b0, b1, b2, b3>>:        *)
(* b3 = seee|eeee, b2 = emmm|mmmm, b1 and b0 the low mantissa bytes.       *)

FSign(f) == f[4] \div 128
FExp(f) == (f[4] % 128) * 2 + (f[3] \div 128)
FMant(f) == (f[3] % 128) * 65536 + f[2] * 256 + f[1]
\* the significand as an integer: |f| = FSig(f) * 2^(FShift(f))
FSig(f) == IF FExp(f) = 0 THEN FMant(f) ELSE 8388608 + FMant(f)
FShift(f) == IF FExp(f) = 0 THEN -149 ELSE FExp(f) - 150

\* a | b on bytes
RECURSIVE BitOr(_, _)
BitOr(a, b) ==
    IF a = 0 THEN b
    ELSE IF b = 0 THEN a
    ELSE 2 * BitOr(a \div 2, b \div 2) + Max(a % 2, b % 2)

\* the sign mask taking no bit
And80_Drop(a) == 0

\* a & mask for the two masks the code uses, 0x80 and 0x7f
And80(a) == (a \div 128) * 128
And7f(a) == a % 128

TruncDiv(a, b) == IF a >= 0 THEN a \div b ELSE -((-a) \div b)

\* fmsbin2ieee without the test for a zero exponent byte
fmsbin2ieee_NoZeroCheck(ms_bin) ==
    LET sign == And80(ms_bin[3])
        ieee_exp == ms_bin[4] - 2
        i3a == BitOr(0, sign % 256)
        i3 == BitOr(i3a, (ieee_exp \div 2) % 256)
        i2a == BitOr(0, (ieee_exp * 128) % 256)
        i2 == BitOr(i2a, And7f(ms_bin[3]) % 256)
    IN  <<ms_bin[1], ms_bin[2], i2, i3>>

(* fmsbin2ieee, lines 63-116.  ms_bin is <<m3, m2, m1, exponent>>.  Python's *)
(* >> floors and its % is never negative, as \div and % here.               *)
fmsbin2ieee(ms_bin) ==
    IF 0 = ms_bin[4]
    THEN <<0, 0, 0, 0>>
    ELSE LET sign == And80(ms_bin[3])
             ieee_exp == ms_bin[4] - 2
             i3a == BitOr(0, sign % 256)
             i3 == BitOr(i3a, (ieee_exp \div 2) % 256)
             i2a == BitOr(0, (ieee_exp * 128) % 256)
             i2 == BitOr(i2a, And7f(ms_bin[3]) % 256)
         IN  <<ms_bin[1], ms_bin[2], i2, i3>>

(* int(ms_date + 19000000), line 36, for ms_date the double that holds a   *)
(* single exactly.  The sum is a double: with 19000000 in [2^24, 2^25) it  *)
(* is rounded to a multiple of 2^-28, so a negative ms_date of magnitude   *)
(* at most 2^-29 vanishes in the sum.  int() truncates toward zero, fails  *)
(* with OverflowError on an infinity and with ValueError on a NaN.  A      *)
(* magnitude of 2^28 or more is beyond every calendar year on either side  *)
(* and is kept as 2^28.                                                    *)
IntOfDatePlusOffset(f) ==
    LET s == FSign(f)
        E == FExp(f)
        k == 150 - E
        I == FSig(f) \div Pow2(k)
        fr == IF FSig(f) % Pow2(k) # 0 THEN 1 ELSE 0
    IN  IF E = 255
        THEN Raise(IF FMant(f) = 0 THEN "OverflowError" ELSE "ValueError",
                   "int", <<>>)
        ELSE IF E >= 155
        THEN Ok(IF s = 0 THEN 19000000 + 268435456
                ELSE 19000000 - 268435456)
        ELSE IF E >= 150
        THEN Ok(IF s = 0 THEN 19000000 + FSig(f) * Pow2(E - 150)
                ELSE 19000000 - FSig(f) * Pow2(E - 150))
        ELSE IF E >= 127
        THEN Ok(IF s = 0 THEN 19000000 + I ELSE 19000000 - I - fr)
        ELSE IF s = 0 \/ FSig(f) = 0 \/ E < 98 \/ (E = 98 /\ FMant(f) = 0)
        THEN Ok(19000000)
        ELSE Ok(18999999)

(* datetime.date takes its arguments as C ints and raises OverflowError    *)
(* for one that does not fit.  yyyy = int(yyyymmdd/10000) reaches 2^31     *)
(* when yyyymmdd >= 2^31 * 10000 = 10240000 * 2^21, and falls below -2^31  *)
(* when yyyymmdd <= -(2^31 + 1) * 10000; 19000000 is 9.06 * 2^21, and a    *)
(* single of exponent field 171 is FSig * 2^21.                            *)
YearOverflowsCInt(f) ==
    /\ FExp(f) # 255
    /\ \/ FExp(f) >= 172
       \/ FExp(f) = 171 /\ FSign(f) = 0 /\ FSig(f) >= 10239991
       \/ FExp(f) = 171 /\ FSign(f) = 1 /\ FSig(f) >= 10240010

(* fmsfloat2date, lines 29-43.                                             *)
fmsfloat2date(ms_date) ==
    Bind(IntOfDatePlusOffset(ms_date), LAMBDA r :
        LET yyyymmdd == r.value
            yyyy == TruncDiv(yyyymmdd, 10000)
            mm == TruncDiv(yyyymmdd - (yyyy * 10000), 100)
            dd == yyyymmdd % 100
        IN  IF r.exc # "none" THEN r
            ELSE IF YearOverflowsCInt(ms_date)
            THEN Raise("OverflowError", "date", <<>>)
            ELSE IF (1900 = yyyy) /\ (0 = mm) /\ (0 = dd)
            THEN date(1900, 1, 1)
            ELSE date(yyyy, mm, dd))

----------------------------------------------------------------------------
(* The catalog.  A dict is a function together with the order in which its *)
(* keys were inserted (list(d.keys()) returns them in that order).         *)

Range(f) == {f[i] : i \in DOMAIN f}

EmptyDict == [k \in {} |-> <<>>]

DictPut(d, k, v) == [x \in (DOMAIN d) \cup {k} |-> IF x = k THEN v ELSE d[x]]

Catalog ==
    [tr |-> ticker_refdata, tk |-> ticker_keys,
     nt |-> name_tickers, nk |-> name_keys]

EmptyCatalog ==
    [tr |-> EmptyDict, tk |-> <<>>, nt |-> EmptyDict, nk |-> <<>>]

Step(cat, out) == [cat |-> cat, out |-> out]

\* InsertRecord without the duplicate check: a repeated symbol's record
\* replaces the one in the index
InsertRecord_Overwrite(cat, record, filename) ==
    LET symbol == record[1]
        name == record[2]
    IN  Step([tr |-> DictPut(cat.tr, symbol, record),
              tk |-> IF symbol \in DOMAIN cat.tr THEN cat.tk
                     ELSE Append(cat.tk, symbol),
              nt |-> IF name \in DOMAIN cat.nt
                     THEN [cat.nt EXCEPT ![name] = Append(@, symbol)]
                     ELSE DictPut(cat.nt, name, <<symbol>>),
              nk |-> IF name \in DOMAIN cat.nt
                     THEN cat.nk
                     ELSE Append(cat.nk, name)],
             Ok(<<>>))

\* InsertRecord raising the duplicate error with the two index file paths
InsertRecord_IndexPaths(cat, record, filename) ==
    LET symbol == record[1]
        name == record[2]
    IN  IF symbol \in DOMAIN cat.tr
        THEN LET old_record == cat.tr[symbol]
             IN  Step(cat, Raise("RuntimeError", "Duplicate ticker",
                                 <<old_record[9], record[9]>>))
        ELSE Step([tr |-> DictPut(cat.tr, symbol, record),
                   tk |-> Append(cat.tk, symbol),
                   nt |-> IF name \in DOMAIN cat.nt
                          THEN [cat.nt EXCEPT ![name] = Append(@, symbol)]
                          ELSE DictPut(cat.nt, name, <<symbol>>),
                   nk |-> IF name \in DOMAIN cat.nt
                          THEN cat.nk
                          ELSE Append(cat.nk, name)],
                  Ok(<<>>))

\* InsertRecord putting a symbol at the front of its name's list
InsertRecord_Prepend(cat, record, filename) ==
    LET symbol == record[1]
        name == record[2]
    IN  IF symbol \in DOMAIN cat.tr
        THEN LET old_record == cat.tr[symbol]
             IN  Step(cat, Raise("RuntimeError", "Duplicate ticker",
                                 <<old_record[6], filename>>))
        ELSE Step([tr |-> DictPut(cat.tr, symbol, record),
                   tk |-> Append(cat.tk, symbol),
                   nt |-> IF name \in DOMAIN cat.nt
                          THEN [cat.nt EXCEPT ![name] = <<symbol>> \o @]
                          ELSE DictPut(cat.nt, name, <<symbol>>),
                   nk |-> IF name \in DOMAIN cat.nt
                          THEN cat.nk
                          ELSE Append(cat.nk, name)],
                  Ok(<<>>))

(* Lines 248-261 of read_emaster_file, and the same code at lines 345-358  *)
(* of read_xmaster_file: the duplicate check, the insertion into the       *)
(* ticker index, and the append to the name index.                         *)
InsertRecord(cat, record, filename) ==
    LET symbol == record[1]
        name == record[2]
    IN  IF symbol \in DOMAIN cat.tr
        THEN LET old_record == cat.tr[symbol]
             IN  Step(cat, Raise("RuntimeError", "Duplicate ticker",
                                 <<old_record[6], filename>>))
        ELSE Step([tr |-> DictPut(cat.tr, symbol, record),
                   tk |-> Append(cat.tk, symbol),
                   nt |-> IF name \in DOMAIN cat.nt
                          THEN [cat.nt EXCEPT ![name] = Append(@, symbol)]
                          ELSE DictPut(cat.nt, name, <<symbol>>),
                   nk |-> IF name \in DOMAIN cat.nt
                          THEN cat.nk
                          ELSE Append(cat.nk, name)],
                  Ok(<<>>))

(* Lines 234-247: one emaster record, as struct.unpack returns it          *)
(* <<f_num, num_fld, flag, symbol, name, freq, first_dt, last_dt,          *)
(* full_name>>, made into the catalog's 9-tuple.                           *)
EmasterRecord(raw, emaster_name) ==
    LET filename == join(dirname(emaster_name), FDat(raw[1]))
        flag == decode(raw[3])
        symbol == decode(strip_null(raw[4]))
        name == decode(strip_null(raw[5]))
        freq == decode(raw[6])
        first_dt == fmsfloat2date(raw[7])
        last_dt == fmsfloat2date(raw[8])
        name2 == IF raw[9][1] # 0 THEN decode(strip_null(raw[9])) ELSE name
    IN  IF first_dt.exc # "none" THEN first_dt
        ELSE IF last_dt.exc # "none" THEN last_dt
        ELSE Ok(<<symbol, name2, first_dt.value, last_dt.value, freq,
                  filename, raw[2], flag, emaster_name>>)

\* the loop of read_emaster_file putting the catalog back as it found it
\* when a record fails
RECURSIVE EmasterLoop_From(_, _, _, _, _)
EmasterLoop_From(start, cat, recs, tail, emaster_name) ==
    IF recs = <<>>
    THEN IF tail > 0
         THEN Step(start, Raise("AssertionError", "record_len", <<>>))
         ELSE Step(cat, Ok(<<>>))
    ELSE Bind(EmasterRecord(Head(recs), emaster_name), LAMBDA rec :
             IF rec.exc # "none" THEN Step(start, rec)
             ELSE Bind(InsertRecord(cat, rec.value, rec.value[6]), LAMBDA ins :
                      IF ins.out.exc # "none" THEN Step(start, ins.out)
                      ELSE EmasterLoop_From(start, ins.cat, Tail(recs), tail,
                                            emaster_name)))

EmasterLoop_Rollback(cat, recs, tail, emaster_name) ==
    EmasterLoop_From(cat, cat, recs, tail, emaster_name)

(* Lines 231-262: the while loop of read_emaster_file over the records     *)
(* that follow the header; tail is the length of a final short read.       *)
RECURSIVE EmasterLoop(_, _, _, _)
EmasterLoop(cat, recs, tail, emaster_name) ==
    IF recs = <<>>
    THEN IF tail > 0
         THEN Step(cat, Raise("AssertionError", "record_len", <<>>))
         ELSE Step(cat, Ok(<<>>))
    ELSE Bind(EmasterRecord(Head(recs), emaster_name), LAMBDA rec :
             IF rec.exc # "none" THEN Step(cat, rec)
             ELSE Bind(InsertRecord(cat, rec.value, rec.value[6]), LAMBDA ins :
                      IF ins.out.exc # "none" THEN ins
                      ELSE EmasterLoop(ins.cat, Tail(recs), tail, emaster_name)))

(* Lines 328-344: one xmaster record, as struct.unpack returns it          *)
(* <<symbol, name, freq, f_num, zero, first_dt_int, first_dt_int2, zero2>>.*)
XmasterRecord(raw, xmaster_name) ==
    LET first_dt_int == raw[6]
        year == TruncDiv(first_dt_int, 10000)
        month == TruncDiv(first_dt_int % 10000, 100)
        day == first_dt_int % 100
        first_dt == date(year, month, day)
        last_dt == date(3000, 12, 31)
        filename == join(dirname(xmaster_name), FMwd(raw[4]))
        symbol == decode(strip_null(raw[1]))
        name == decode(strip_null(raw[2]))
        freq == decode(raw[3])
        num_fld == 7
        flag == <<32>>
    IN  IF raw[6] # raw[7]
        THEN Raise("AssertionError", "first_dt_int", <<>>)
        ELSE IF first_dt.exc # "none" THEN first_dt
        ELSE Ok(<<symbol, name, first_dt.value, last_dt.value, freq,
                  filename, num_fld, flag, xmaster_name>>)

(* Lines 325-359: the while loop of read_xmaster_file.                     *)
RECURSIVE XmasterLoop(_, _, _, _)
XmasterLoop(cat, recs, tail, xmaster_name) ==
    IF recs = <<>>
    THEN IF tail > 0
         THEN Step(cat, Raise("AssertionError", "record_len", <<>>))
         ELSE Step(cat, Ok(<<>>))
    ELSE Bind(XmasterRecord(Head(recs), xmaster_name), LAMBDA rec :
             IF rec.exc # "none" THEN Step(cat, rec)
             ELSE Bind(InsertRecord(cat, rec.value, rec.value[6]), LAMBDA ins :
                      IF ins.out.exc # "none" THEN ins
                      ELSE XmasterLoop(ins.cat, Tail(recs), tail, xmaster_name)))

----------------------------------------------------------------------------
(* The lookups.                                                            *)

\* sep.join(list)
RECURSIVE StrJoin(_, _)
StrJoin(sep, list) ==
    IF list = <<>> THEN <<>>
    ELSE IF Len(list) = 1 THEN list[1]
    ELSE list[1] \o sep \o StrJoin(sep, Tail(list))

\* np.sort on a list of str: ascending by code point
RECURSIVE InsertSorted(_, _)
InsertSorted(sorted, x) ==
    IF sorted = <<>> THEN <<x>>
    ELSE IF LexLess(x, Head(sorted)) THEN <<x>> \o sorted
    ELSE <<Head(sorted)>> \o InsertSorted(Tail(sorted), x)

RECURSIVE NpSort(_)
NpSort(a) ==
    IF a = <<>> THEN <<>>
    ELSE InsertSorted(NpSort(SubSeq(a, 1, Len(a) - 1)), a[Len(a)])

\* tickers without the sort
tickers_Unsorted(cat) == cat.tk

(* The tickers property, lines 403-406.                                    *)
tickers(cat) == NpSort(cat.tk)

(* The names property, lines 408-411.                                      *)
names(cat) == NpSort(cat.nk)

\* get_reference_data trying the name index before the ticker index
get_reference_data_NameFirst(cat, asset_id) ==
    IF asset_id \in DOMAIN cat.nt
    THEN LET tickers_list == cat.nt[asset_id]
         IN  IF Len(tickers_list) = 1
             THEN Ok(cat.tr[tickers_list[1]])
             ELSE Raise("LookupError", "Multiple Tickers",
                        <<asset_id, StrJoin(<<32, 45, 32>>, tickers_list)>>)
    ELSE IF asset_id \in DOMAIN cat.tr
    THEN Ok(cat.tr[asset_id])
    ELSE Raise("LookupError", "does not correspond", <<asset_id>>)

(* get_reference_data, lines 418-436.  The ambiguity error is built with a *)
(* comma, not %, so its args are the format and the pair (asset_id,        *)
(* joined tickers).                                                        *)
get_reference_data(cat, asset_id) ==
    IF asset_id \in DOMAIN cat.tr
    THEN Ok(cat.tr[asset_id])
    ELSE IF asset_id \in DOMAIN cat.nt
    THEN LET tickers_list == cat.nt[asset_id]
         IN  IF Len(tickers_list) = 1
             THEN Ok(cat.tr[tickers_list[1]])
             ELSE Raise("LookupError", "Multiple Tickers",
                        <<asset_id, StrJoin(<<32, 45, 32>>, tickers_list)>>)
    ELSE Raise("LookupError", "does not correspond", <<asset_id>>)

(* get_tickers, lines 438-443.                                             *)
get_tickers(cat, name) ==
    IF name \in DOMAIN cat.nt
    THEN Ok(cat.nt[name])
    ELSE Raise("LookupError", "No asset with name", <<name>>)

(* The catalog property, lines 379-401: one row per ticker of tickers,     *)
(* (ticker, name, freq, start, end) from get_reference_data(tkr).          *)
catalog(cat) ==
    LET tks == tickers(cat)
    IN  [idx \in 1..Len(tks) |->
            LET cur_rec == get_reference_data(cat, tks[idx]).value
            IN  <<cur_rec[1], cur_rec[2], cur_rec[5], cur_rec[3], cur_rec[4]>>]

----------------------------------------------------------------------------
(* The inputs: paths, index files, identifiers.                            *)

\* "EMASTER" and "XMASTER"
EMASTER == <<69, 77, 65, 83, 84, 69, 82>>
XMASTER == <<88, 77, 65, 83, 84, 69, 82>>
P1 == [dir |-> "d1", base |-> EMASTER]
P2 == [dir |-> "d2", base |-> XMASTER]
P3 == [dir |-> "d3", base |-> EMASTER]
Paths == {P1, P2, P3}
\* os.path.isfile: P3 names no file
isfile(p) == p \in {P1, P2}

sA == <<65>>
sB == <<66>>
sAB == <<65, 66>>
sX == <<88>>
sZ == <<90>>
Ids == {sA, sB, sAB, sZ}

\* the widths of the fixed string fields of the two record formats
ESymbolLen == 21
ENameLen == 28
ELongNameLen == 53
XSymbolLen == 15
XNameLen == 32

\* a fixed-width field holding s and then NULs
Field(s, w) == s \o [i \in 1..(w - Len(s)) |-> NUL]

\* 1200115.0 (2020-01-15), 1201315.0 (month 13) and 0.0 as singles
F20200115 == <<152, 127, 146, 73>>
F20201315 == <<24, 165, 146, 73>>
FZero == <<0, 0, 0, 0>>

\* emaster records: AB named A; B with the short name X and the long name
\* A; B with a first date in month 13
EmasterRaws ==
    { <<1, 7, <<32>>, Field(sAB, ESymbolLen), Field(sA, ENameLen), <<68>>,
        F20200115, F20200115, Field(<<>>, ELongNameLen)>>,
      <<2, 5, <<42>>, Field(sB, ESymbolLen), Field(sX, ENameLen), <<87>>,
        FZero, F20200115, Field(sA, ELongNameLen)>>,
      <<3, 7, <<32>>, Field(sB, ESymbolLen), Field(sA, ENameLen), <<68>>,
        F20201315, F20200115, Field(<<>>, ELongNameLen)>> }

\* xmaster records: B named AB; AB with two first dates that disagree; AB
\* with the first date 0
XmasterRaws ==
    { <<Field(sB, XSymbolLen), Field(sAB, XNameLen), <<68>>, 2, 0,
        19991231, 19991231, 0>>,
      <<Field(sAB, XSymbolLen), Field(sA, XNameLen), <<68>>, 3, 0,
        20200115, 20200116, 0>>,
      <<Field(sAB, XSymbolLen), Field(sA, XNameLen), <<68>>, 4, 0,
        0, 0, 0>> }

SeqsUpTo(S, n) == UNION {[1..k -> S] : k \in 0..n}

\* a file shorter than its header: <<>> for the header, and nothing after
ShortFile == [header |-> <<>>, recs |-> <<>>, tail |-> 0]

\* emaster files: the header <<count, highest file number>>, records, and
\* the length of a final partial record (0: the file ends on a record)
EmasterFiles ==
    {ShortFile} \cup
    { [header |-> <<1, 1>>, recs |-> r, tail |-> t] :
          r \in SeqsUpTo(EmasterRaws, MaxRecs), t \in {0, 100} }

\* xmaster files: the header <<count, count2, highest file number>>
XmasterFiles ==
    {ShortFile} \cup
    { [header |-> <<1, 1, 2>>, recs |-> r, tail |-> t] :
          r \in SeqsUpTo(XmasterRaws, MaxRecs), t \in {0, 100} } \cup
    { [header |-> <<1, 2, 2>>, recs |-> r, tail |-> 0] :
          r \in SeqsUpTo(XmasterRaws, MaxRecs) }

----------------------------------------------------------------------------
(* The catalog's operations.                                               *)

SetCatalog(cat) ==
    /\ ticker_refdata' = cat.tr
    /\ ticker_keys' = cat.tk
    /\ name_tickers' = cat.nt
    /\ name_keys' = cat.nk

NoFile == [n |-> 0, recs |-> <<>>, tail |-> 0]

(* __init__, lines 135-145, called with no root_dir.                       *)
Init ==
    /\ num_files = 0
    /\ max_file_num = 0
    /\ ticker_refdata = EmptyDict
    /\ ticker_keys = <<>>
    /\ name_tickers = EmptyDict
    /\ name_keys = <<>>
    /\ master_files = <<>>
    /\ call = [op |-> "__init__", arg |-> <<>>]
    /\ ret = Ok(<<>>)
    /\ pc = "idle"
    /\ datafile = NoFile
    /\ handle = "closed"
    /\ opens = 0
    /\ reads = 0
    /\ buf = "none"
    /\ rec_num = 0
    /\ ohlc_data = <<>>
    /\ again = FALSE

\* reset_refdata leaving the name index as it is
reset_refdata_KeepNames ==
    /\ pc = "idle"
    /\ call' = [op |-> "reset_refdata", arg |-> <<>>]
    /\ ticker_refdata' = EmptyDict
    /\ ticker_keys' = <<>>
    /\ master_files' = <<>>
    /\ ret' = Ok(<<>>)
    /\ UNCHANGED <<name_tickers, name_keys, num_files, max_file_num>>
    /\ UNCHANGED rdvars

(* reset_refdata, lines 150-154.                                           *)
reset_refdata ==
    /\ pc = "idle"
    /\ call' = [op |-> "reset_refdata", arg |-> <<>>]
    /\ SetCatalog(EmptyCatalog)
    /\ master_files' = <<>>
    /\ ret' = Ok(<<>>)
    /\ UNCHANGED <<num_files, max_file_num>>
    /\ UNCHANGED rdvars

\* the already-read check left out
AlreadyRead_Never(master_name) == FALSE

(* Lines 184 and 274: the path is in master_files.                         *)
AlreadyRead(master_name) == master_name \in Range(master_files)

(* read_emaster_file, lines 174-263.  The file's content is whatever the   *)
(* path holds when it is opened.                                           *)
read_emaster_file(emaster_name) ==
    /\ pc = "idle"
    /\ call' = [op |-> "read_emaster_file", arg |-> emaster_name]
    /\ UNCHANGED rdvars
    /\ IF ~isfile(emaster_name)
       THEN /\ ret' = Raise("Exception", "does not exist", <<emaster_name>>)
            /\ UNCHANGED catvars
       ELSE IF AlreadyRead(emaster_name)
       THEN /\ ret' = Raise("Exception", "has already been read",
                            <<emaster_name>>)
            /\ UNCHANGED catvars
       ELSE \E file \in EmasterFiles :
            IF Len(file.header) # 2
            THEN /\ ret' = Raise("struct.error", "header", <<>>)
                 /\ UNCHANGED catvars
            ELSE \E res \in {EmasterLoop(Catalog, file.recs, file.tail,
                                         emaster_name)} :
                     /\ num_files' = file.header[1]
                     /\ max_file_num' = file.header[2]
                     /\ SetCatalog(res.cat)
                     /\ master_files' = IF res.out.exc = "none"
                                        THEN Append(master_files, emaster_name)
                                        ELSE master_files
                     /\ ret' = res.out

\* read_xmaster_file taking the header's count and highest file number
\* before it compares the two counts
read_xmaster_file_CountFirst(xmaster_name) ==
    /\ pc = "idle"
    /\ call' = [op |-> "read_xmaster_file", arg |-> xmaster_name]
    /\ UNCHANGED rdvars
    /\ IF ~isfile(xmaster_name)
       THEN /\ ret' = Raise("Exception", "does not exist", <<xmaster_name>>)
            /\ UNCHANGED catvars
       ELSE IF AlreadyRead(xmaster_name)
       THEN /\ ret' = Raise("Exception", "has already been read",
                            <<xmaster_name>>)
            /\ UNCHANGED catvars
       ELSE \E file \in XmasterFiles :
            IF Len(file.header) # 3
            THEN /\ ret' = Raise("struct.error", "header", <<>>)
                 /\ UNCHANGED catvars
            ELSE IF file.header[1] # file.header[2]
            THEN /\ num_files + file.header[1] <= MaxNumFiles
                 /\ ret' = Raise("AssertionError", "xmst_files", <<>>)
                 /\ num_files' = num_files + file.header[1]
                 /\ max_file_num' = file.header[3]
                 /\ UNCHANGED <<ticker_refdata, ticker_keys, name_tickers,
                                name_keys, master_files>>
            ELSE /\ num_files + file.header[1] <= MaxNumFiles
                 /\ \E res \in {XmasterLoop(Catalog, file.recs, file.tail,
                                            xmaster_name)} :
                        /\ num_files' = num_files + file.header[1]
                        /\ max_file_num' = file.header[3]
                        /\ SetCatalog(res.cat)
                        /\ master_files' =
                               IF res.out.exc = "none"
                               THEN Append(master_files, xmaster_name)
                               ELSE master_files
                        /\ ret' = res.out

(* read_xmaster_file, lines 265-360.                                       *)
read_xmaster_file(xmaster_name) ==
    /\ pc = "idle"
    /\ call' = [op |-> "read_xmaster_file", arg |-> xmaster_name]
    /\ UNCHANGED rdvars
    /\ IF ~isfile(xmaster_name)
       THEN /\ ret' = Raise("Exception", "does not exist", <<xmaster_name>>)
            /\ UNCHANGED catvars
       ELSE IF AlreadyRead(xmaster_name)
       THEN /\ ret' = Raise("Exception", "has already been read",
                            <<xmaster_name>>)
            /\ UNCHANGED catvars
       ELSE \E file \in XmasterFiles :
            IF Len(file.header) # 3
            THEN /\ ret' = Raise("struct.error", "header", <<>>)
                 /\ UNCHANGED catvars
            ELSE IF file.header[1] # file.header[2]
            THEN /\ ret' = Raise("AssertionError", "xmst_files", <<>>)
                 /\ UNCHANGED catvars
            ELSE /\ num_files + file.header[1] <= MaxNumFiles
                 /\ \E res \in {XmasterLoop(Catalog, file.recs, file.tail,
                                            xmaster_name)} :
                        /\ num_files' = num_files + file.header[1]
                        /\ max_file_num' = file.header[3]
                        /\ SetCatalog(res.cat)
                        /\ master_files' =
                               IF res.out.exc = "none"
                               THEN Append(master_files, xmaster_name)
                               ELSE master_files
                        /\ ret' = res.out

(* The read-only calls: each hands its result to the caller.               *)
call_get_reference_data(asset_id) ==
    /\ pc = "idle"
    /\ call' = [op |-> "get_reference_data", arg |-> asset_id]
    /\ ret' = get_reference_data(Catalog, asset_id)
    /\ UNCHANGED catvars
    /\ UNCHANGED rdvars

call_get_tickers(name) ==
    /\ pc = "idle"
    /\ call' = [op |-> "get_tickers", arg |-> name]
    /\ ret' = get_tickers(Catalog, name)
    /\ UNCHANGED catvars
    /\ UNCHANGED rdvars

call_tickers ==
    /\ pc = "idle"
    /\ call' = [op |-> "tickers", arg |-> <<>>]
    /\ ret' = Ok(tickers(Catalog))
    /\ UNCHANGED catvars
    /\ UNCHANGED rdvars

call_names ==
    /\ pc = "idle"
    /\ call' = [op |-> "names", arg |-> <<>>]
    /\ ret' = Ok(names(Catalog))
    /\ UNCHANGED catvars
    /\ UNCHANGED rdvars

call_catalog ==
    /\ pc = "idle"
    /\ call' = [op |-> "catalog", arg |-> <<>>]
    /\ ret' = Ok(catalog(Catalog))
    /\ UNCHANGED catvars
    /\ UNCHANGED rdvars

Next ==
    \/ \E p \in Paths : read_emaster_file(p)
    \/ \E p \in Paths : read_xmaster_file(p)
    \/ reset_refdata
    \/ \E id \in Ids : call_get_reference_data(id)
    \/ \E id \in Ids : call_get_tickers(id)
    \/ call_tickers
    \/ call_names
    \/ call_catalog

Spec == Init /\ [][Next]_vars

----------------------------------------------------------------------------
(* get_raw_data, lines 445-496, one step at a time.  Nothing else runs     *)
(* while a call is in progress (pc # "idle").                              *)

\* MBF buffers <<m3, m2, m1, exponent>>: 1200115.0 (2020-01-15), 1201315.0
\* (month 13), 0.0, 10.5, 4.0, -2.0 and 1000.0
M20200115 == <<152, 127, 18, 149>>
M20201315 == <<24, 165, 18, 149>>
MZero == <<0, 0, 0, 0>>
M10p5 == <<0, 0, 40, 132>>
M4 == <<0, 0, 0, 131>>
MNeg2 == <<0, 0, 128, 130>>
M1000 == <<0, 0, 122, 138>>

\* 28-byte data records, as their seven 4-byte fields
D1 == <<M20200115, M10p5, M10p5, M4, M4, M1000, MZero>>
D2 == <<MZero, M4, M4, MNeg2, MNeg2, MZero, M1000>>
D3 == <<M20201315, M4, M4, M4, M4, M1000, MZero>>
DataRaws == {D1, D2, D3}

\* data files: the header <<junk, num_records>> (<<>>: the file is shorter
\* than a header), the complete records after it, and the length of a final
\* partial record
DataFiles ==
    {ShortFile} \cup
    { [header |-> <<0, n>>, recs |-> r, tail |-> t] :
          n \in 0..(MaxDataRecs + 1), r \in SeqsUpTo(DataRaws, MaxDataRecs),
          t \in {0, 10} }

\* what np.empty may hold in a slot it never wrote: any bar at all; two
\* stand for them, one that no record of DataRaws decodes to and one that
\* D1 decodes to
GarbageBars ==
    { << <<1970, 1, 1>>, FZero, FZero, FZero, FZero, FZero, FZero >>,
      << <<2020, 1, 15>>, <<0, 0, 40, 65>>, <<0, 0, 40, 65>>,
         <<0, 0, 128, 64>>, <<0, 0, 128, 64>>, <<0, 0, 122, 68>>, FZero >> }

\* datafile.read(record_len), the k-th call after the header: "record" for
\* a whole record (recs[k]), "short" for the partial tail, "empty" at the
\* end of the file
ReadRecord(file, k) ==
    IF k <= Len(file.recs) THEN "record"
    ELSE IF k = Len(file.recs) + 1 /\ file.tail > 0 THEN "short"
    ELSE "empty"

(* Lines 485-492: the tuple made of one record.                            *)
DecodeRecord(rec) ==
    Bind(fmsfloat2date(fmsbin2ieee(rec[1])), LAMBDA dt :
        IF dt.exc # "none" THEN dt
        ELSE Ok(<<dt.value, fmsbin2ieee(rec[2]), fmsbin2ieee(rec[3]),
                  fmsbin2ieee(rec[4]), fmsbin2ieee(rec[5]),
                  fmsbin2ieee(rec[6]), fmsbin2ieee(rec[7])>>))

Pending == [exc |-> "pending", site |-> "", args |-> <<>>, value |-> <<>>]

\* leaving the with block on an error without closing the file
ExitWith_LeakOnError(outcome) ==
    /\ handle' = IF outcome.exc = "none" THEN "closed" ELSE handle
    /\ ret' = outcome
    /\ pc' = "idle"

(* Line 469, the with statement: however the block is left, the file is    *)
(* closed before the call returns or raises.                               *)
ExitWith(outcome) ==
    /\ handle' = "closed"
    /\ ret' = outcome
    /\ pc' = "idle"

\* get_raw_data answering from memory when the call before it returned
\* data for the same asset
get_raw_data_call_Cached(asset_id) ==
    /\ pc = "idle"
    /\ call' = [op |-> "get_raw_data", arg |-> asset_id]
    /\ UNCHANGED catvars
    /\ again' = (call.op = "get_raw_data" /\ ret.exc = "none"
                     /\ call.arg = asset_id)
    /\ reads' = 0
    /\ buf' = "none"
    /\ rec_num' = 0
    /\ ohlc_data' = <<>>
    /\ \E ref \in {get_reference_data(Catalog, asset_id)} :
           IF ref.exc # "none"
           THEN /\ ret' = ref
                /\ opens' = 0
                /\ datafile' = NoFile
                /\ UNCHANGED <<pc, handle>>
           ELSE IF call.op = "get_raw_data" /\ ret.exc = "none"
                       /\ call.arg = asset_id
           THEN /\ ret' = Ok(<<>>)
                /\ opens' = 0
                /\ datafile' = NoFile
                /\ UNCHANGED <<pc, handle>>
           ELSE \/ /\ ret' = Raise("FileNotFoundError", "open",
                                   <<ref.value[6]>>)
                   /\ opens' = 0
                   /\ datafile' = NoFile
                   /\ UNCHANGED <<pc, handle>>
                \/ \E file \in DataFiles :
                       /\ datafile' = file
                       /\ opens' = 1
                       /\ handle' = "open"
                       /\ pc' = "header"
                       /\ ret' = Pending

(* Lines 467-469: the lookup and the open.  The data file is whatever the  *)
(* path holds when it is opened, or missing.                               *)
get_raw_data_call(asset_id) ==
    /\ pc = "idle"
    /\ call' = [op |-> "get_raw_data", arg |-> asset_id]
    /\ UNCHANGED catvars
    /\ again' = (call.op = "get_raw_data" /\ ret.exc = "none"
                     /\ call.arg = asset_id)
    /\ reads' = 0
    /\ buf' = "none"
    /\ rec_num' = 0
    /\ ohlc_data' = <<>>
    /\ \E ref \in {get_reference_data(Catalog, asset_id)} :
           IF ref.exc # "none"
           THEN /\ ret' = ref
                /\ opens' = 0
                /\ datafile' = NoFile
                /\ UNCHANGED <<pc, handle>>
           ELSE \/ /\ ret' = Raise("FileNotFoundError", "open",
                                   <<ref.value[6]>>)
                   /\ opens' = 0
                   /\ datafile' = NoFile
                   /\ UNCHANGED <<pc, handle>>
                \/ \E file \in DataFiles :
                       /\ datafile' = file
                       /\ opens' = 1
                       /\ handle' = "open"
                       /\ pc' = "header"
                       /\ ret' = Pending

\* the header step allocating num_records slots instead of num_records - 1
get_raw_data_header_AllocN ==
    /\ pc = "header"
    /\ UNCHANGED catvars
    /\ UNCHANGED <<call, datafile, opens, rec_num, again>>
    /\ IF Len(datafile.header) # 2
       THEN /\ ExitWith(Raise("struct.error", "header", <<>>))
            /\ UNCHANGED <<reads, buf, ohlc_data>>
       ELSE LET num_records == datafile.header[2]
            IN  IF num_records - 1 < 0
                THEN /\ ExitWith(Raise("ValueError", "np.empty", <<>>))
                     /\ UNCHANGED <<reads, buf, ohlc_data>>
                ELSE /\ ohlc_data' \in [1..num_records -> GarbageBars]
                     /\ reads' = 1
                     /\ buf' = ReadRecord(datafile, 1)
                     /\ pc' = "loop"
                     /\ UNCHANGED <<handle, ret>>

(* Lines 470-481: the header, the allocation, the first record read.       *)
get_raw_data_header ==
    /\ pc = "header"
    /\ UNCHANGED catvars
    /\ UNCHANGED <<call, datafile, opens, rec_num, again>>
    /\ IF Len(datafile.header) # 2
       THEN /\ ExitWith(Raise("struct.error", "header", <<>>))
            /\ UNCHANGED <<reads, buf, ohlc_data>>
       ELSE LET num_records == datafile.header[2]
            IN  IF num_records - 1 < 0
                THEN /\ ExitWith(Raise("ValueError", "np.empty", <<>>))
                     /\ UNCHANGED <<reads, buf, ohlc_data>>
                ELSE /\ ohlc_data' \in [1..(num_records - 1) -> GarbageBars]
                     /\ reads' = 1
                     /\ buf' = ReadRecord(datafile, 1)
                     /\ pc' = "loop"
                     /\ UNCHANGED <<handle, ret>>

\* the loop returning as soon as it has stored a bar
get_raw_data_loop_ReturnEarly ==
    /\ pc = "loop"
    /\ UNCHANGED catvars
    /\ UNCHANGED <<call, datafile, opens, again>>
    /\ IF buf = "empty"
       THEN /\ ExitWith(Ok(ohlc_data))
            /\ UNCHANGED <<reads, buf, rec_num, ohlc_data>>
       ELSE IF buf = "short"
       THEN /\ ExitWith(Raise("AssertionError", "record_len", <<>>))
            /\ UNCHANGED <<reads, buf, rec_num, ohlc_data>>
       ELSE \E bar \in {DecodeRecord(datafile.recs[reads])} :
                IF bar.exc # "none"
                THEN /\ ExitWith(bar)
                     /\ UNCHANGED <<reads, buf, rec_num, ohlc_data>>
                ELSE IF rec_num >= Len(ohlc_data)
                THEN /\ ExitWith(Raise("IndexError", "ohlc_data", <<rec_num>>))
                     /\ UNCHANGED <<reads, buf, rec_num, ohlc_data>>
                ELSE /\ ohlc_data' = [ohlc_data EXCEPT ![rec_num + 1] = bar.value]
                     /\ rec_num' = rec_num + 1
                     /\ ExitWith(Ok(ohlc_data'))
                     /\ UNCHANGED <<reads, buf>>

\* the loop taking a short read for the end of the file
get_raw_data_loop_ShortIsEnd ==
    /\ pc = "loop"
    /\ UNCHANGED catvars
    /\ UNCHANGED <<call, datafile, opens, again>>
    /\ IF buf = "empty"
       THEN /\ ExitWith(Ok(ohlc_data))
            /\ UNCHANGED <<reads, buf, rec_num, ohlc_data>>
       ELSE IF buf = "short"
       THEN /\ ExitWith(Ok(ohlc_data))
            /\ UNCHANGED <<reads, buf, rec_num, ohlc_data>>
       ELSE \E bar \in {DecodeRecord(datafile.recs[reads])} :
                IF bar.exc # "none"
                THEN /\ ExitWith(bar)
                     /\ UNCHANGED <<reads, buf, rec_num, ohlc_data>>
                ELSE IF rec_num >= Len(ohlc_data)
                THEN /\ ExitWith(Raise("IndexError", "ohlc_data", <<rec_num>>))
                     /\ UNCHANGED <<reads, buf, rec_num, ohlc_data>>
                ELSE /\ ohlc_data' = [ohlc_data EXCEPT ![rec_num + 1] = bar.value]
                     /\ rec_num' = rec_num + 1
                     /\ reads' = reads + 1
                     /\ buf' = ReadRecord(datafile, reads + 1)
                     /\ UNCHANGED <<pc, handle, ret>>

(* Lines 482-496: one pass of the while loop, or the return after it.      *)
get_raw_data_loop ==
    /\ pc = "loop"
    /\ UNCHANGED catvars
    /\ UNCHANGED <<call, datafile, opens, again>>
    /\ IF buf = "empty"
       THEN /\ ExitWith(Ok(ohlc_data))
            /\ UNCHANGED <<reads, buf, rec_num, ohlc_data>>
       ELSE IF buf = "short"
       THEN /\ ExitWith(Raise("AssertionError", "record_len", <<>>))
            /\ UNCHANGED <<reads, buf, rec_num, ohlc_data>>
       ELSE \E bar \in {DecodeRecord(datafile.recs[reads])} :
                IF bar.exc # "none"
                THEN /\ ExitWith(bar)
                     /\ UNCHANGED <<reads, buf, rec_num, ohlc_data>>
                ELSE IF rec_num >= Len(ohlc_data)
                THEN /\ ExitWith(Raise("IndexError", "ohlc_data", <<rec_num>>))
                     /\ UNCHANGED <<reads, buf, rec_num, ohlc_data>>
                ELSE /\ ohlc_data' = [ohlc_data EXCEPT ![rec_num + 1] = bar.value]
                     /\ rec_num' = rec_num + 1
                     /\ reads' = reads + 1
                     /\ buf' = ReadRecord(datafile, reads + 1)
                     /\ UNCHANGED <<pc, handle, ret>>

(* The reader's specification starts from a catalog that one               *)
(* read_emaster_file of P1 has filled without error.                       *)
InitReader ==
    \E file \in EmasterFiles :
        \E res \in {EmasterLoop(EmptyCatalog, file.recs, file.tail, P1)} :
            /\ Len(file.header) = 2
            /\ res.out.exc = "none"
            /\ num_files = file.header[1]
            /\ max_file_num = file.header[2]
            /\ ticker_refdata = res.cat.tr
            /\ ticker_keys = res.cat.tk
            /\ name_tickers = res.cat.nt
            /\ name_keys = res.cat.nk
            /\ master_files = <<P1>>
            /\ call = [op |-> "read_emaster_file", arg |-> P1]
            /\ ret = res.out
            /\ pc = "idle"
            /\ datafile = NoFile
            /\ handle = "closed"
            /\ opens = 0
            /\ reads = 0
            /\ buf = "none"
            /\ rec_num = 0
            /\ ohlc_data = <<>>
            /\ again = FALSE

NextReader ==
    \/ \E id \in Ids : get_raw_data_call(id)
    \/ get_raw_data_header
    \/ get_raw_data_loop

SpecReader == InitReader /\ [][NextReader]_vars

(* The read side as a whole: get_raw_data and the lookups, in any order,   *)
(* on the catalog that one read_emaster_file has filled with the symbols   *)
(* AB and B, in this order.                                                *)
InitReads ==
    /\ InitReader
    /\ ticker_keys = <<sAB, sB>>

\* the assets get_raw_data is asked for here: a ticker of that catalog and
\* an id it does not hold
ReadIds == {sAB, sZ}

NextReads ==
    \/ \E id \in ReadIds : get_raw_data_call(id)
    \/ get_raw_data_header
    \/ get_raw_data_loop
    \/ \E id \in Ids : call_get_reference_data(id)
    \/ \E id \in Ids : call_get_tickers(id)
    \/ call_tickers
    \/ call_names
    \/ call_catalog

SpecReads == InitReads /\ [][NextReads]_vars

----------------------------------------------------------------------------
(* The codecs on their own: fmsbin2ieee, fmsfloat2date and strip_null, each *)
(* applied once to an argument drawn at the start.                         *)

\* MBF buffers <<m3, m2, m1, exponent>>: every exponent byte, and mantissa
\* bytes with no bit, the low bit, the high bit or every bit set
MbfBufs ==
    { <<m3, m2, m1, e>> :
          m3 \in {0, 1, 255}, m2 \in {0, 128, 255},
          m1 \in {0, 1, 127, 128, 255}, e \in 0..255 }

\* the single with sign s, exponent field e and mantissa bytes m2 (7 bits),
\* m1, m0
Single(sgn, e, m2, m1, m0) ==
    <<m0, m1, (e % 2) * 128 + m2, sgn * 128 + (e \div 2)>>

\* the singles -0.0, 1.0, 100.0, 101.0, 1200229.0, 1190229.0, 991231.0,
\* 80991224.0 and 81000104.0
FNegZero == <<0, 0, 0, 128>>
F1 == <<0, 0, 128, 63>>
F100 == <<0, 0, 200, 66>>
F101 == <<0, 0, 202, 66>>
F20200229 == <<40, 131, 146, 73>>
F20190229 == <<168, 74, 145, 73>>
F19991231 == <<240, 255, 113, 73>>
F99991224 == <<127, 122, 154, 76>>
F100000104 == <<213, 126, 154, 76>>

\* date singles: the ones above, and every sign and exponent field with a
\* few mantissas (among them the infinities, NaNs, subnormals, and the
\* singles around 2^31 * 10000)
DateSingles ==
    { F20200115, F20201315, FZero, FNegZero, F1, F100, F101, F20200229,
      F20190229, F19991231, F99991224, F100000104,
      Single(0, 171, 28, 63, 246), Single(0, 171, 28, 63, 247),
      Single(1, 171, 28, 64, 9), Single(1, 171, 28, 64, 10) } \cup
    { Single(sgn, e, m2, 0, m0) :
          sgn \in {0, 1}, e \in 0..255, m2 \in {0, 64, 127}, m0 \in {0, 1} }

\* the widths of the string fields of the index records
FieldWidths == {XSymbolLen, ESymbolLen, ENameLen, XNameLen, ELongNameLen}

\* string fields: a string and NULs after it; a string, a NUL and other
\* bytes after it; a field with its only NUL in the last place; a field
\* with no NUL at all
NullFields ==
    UNION { { Field(str, w) : str \in {<<>>, sA, sAB} } \cup
            { sAB \o <<NUL>> \o [i \in 1..(w - 3) |-> 90],
              [i \in 1..(w - 1) |-> 65] \o <<NUL>>,
              [i \in 1..w |-> 65] } : w \in FieldWidths }

CodecCalls ==
    { [op |-> "fmsbin2ieee", arg |-> b] : b \in MbfBufs } \cup
    { [op |-> "fmsfloat2date", arg |-> f] : f \in DateSingles } \cup
    { [op |-> "strip_null", arg |-> c] : c \in NullFields }

InitCodec ==
    /\ call \in CodecCalls
    /\ ret = Pending
    /\ num_files = 0
    /\ max_file_num = 0
    /\ ticker_refdata = EmptyDict
    /\ ticker_keys = <<>>
    /\ name_tickers = EmptyDict
    /\ name_keys = <<>>
    /\ master_files = <<>>
    /\ pc = "idle"
    /\ datafile = NoFile
    /\ handle = "closed"
    /\ opens = 0
    /\ reads = 0
    /\ buf = "none"
    /\ rec_num = 0
    /\ ohlc_data = <<>>
    /\ again = FALSE

call_fmsbin2ieee ==
    /\ call.op = "fmsbin2ieee"
    /\ ret = Pending
    /\ ret' = Ok(fmsbin2ieee(call.arg))
    /\ UNCHANGED call
    /\ UNCHANGED catvars
    /\ UNCHANGED rdvars

call_fmsfloat2date ==
    /\ call.op = "fmsfloat2date"
    /\ ret = Pending
    /\ ret' = fmsfloat2date(call.arg)
    /\ UNCHANGED call
    /\ UNCHANGED catvars
    /\ UNCHANGED rdvars

call_strip_null ==
    /\ call.op = "strip_null"
    /\ ret = Pending
    /\ ret' = Ok(strip_null(call.arg))
    /\ UNCHANGED call
    /\ UNCHANGED catvars
    /\ UNCHANGED rdvars

NextCodec ==
    \/ call_fmsbin2ieee
    \/ call_fmsfloat2date
    \/ call_strip_null

SpecCodec == InitCodec /\ [][NextCodec]_vars

----------------------------------------------------------------------------
(* Properties of the catalog, checked under Spec.                          *)

IsMerge == call.op \in {"read_emaster_file", "read_xmaster_file"}

\* the symbols of an index file's records, in file order
ESymbols(file) ==
    [i \in 1..Len(file.recs) |-> decode(strip_null(file.recs[i][4]))]
XSymbols(file) ==
    [i \in 1..Len(file.recs) |-> decode(strip_null(file.recs[i][1]))]

\* some record of the file carries a symbol that the catalog holds, or that
\* an earlier record of the file carries
MeetsPresent(syms) ==
    \E i \in 1..Len(syms) :
        \/ syms[i] \in DOMAIN ticker_refdata
        \/ \E j \in 1..(i - 1) : syms[j] = syms[i]

\* a step keeps every record of the ticker index where it is
RecordsKept ==
    \A s \in DOMAIN ticker_refdata :
        /\ s \in DOMAIN ticker_refdata'
        /\ ticker_refdata'[s] = ticker_refdata[s]

\* the read-only calls leave the catalog as the call before them left it
IsRead ==
    call.op \in {"get_reference_data", "get_tickers", "tickers", "names",
                 "catalog"}

\* merging a file that holds a present symbol, from a path not read yet,
\* does not succeed (stated in the states a merge or a reset produced: a
\* read-only call produces no catalog of its own)
DuplicateFails ==
    IsRead \/
    \A p \in {q \in Paths : isfile(q) /\ ~AlreadyRead(q)} :
        /\ \A f \in EmasterFiles :
               (Len(f.header) = 2 /\ MeetsPresent(ESymbols(f)))
                   => EmasterLoop(Catalog, f.recs, f.tail, p).out.exc # "none"
        /\ \A f \in XmasterFiles :
               (Len(f.header) = 3 /\ MeetsPresent(XSymbols(f)))
                   => XmasterLoop(Catalog, f.recs, f.tail, p).out.exc # "none"

(* C1: without a reset_refdata, every symbol of the ticker index stays     *)
(* bound to the record first inserted under it: no step other than         *)
(* reset_refdata removes or changes a record of the ticker index, and      *)
(* merging a file that holds an already-present symbol fails.              *)
C1_FirstRecordKept ==
    /\ [][reset_refdata \/ RecordsKept]_vars
    /\ [](DuplicateFails)

\* C1's case: a merge has just failed on a symbol that another index file
\* had inserted, and that record is still the one in the index
C1_Witness ==
    /\ IsMerge
    /\ ret.exc = "RuntimeError"
    /\ \E s \in DOMAIN ticker_refdata :
           /\ ticker_refdata[s][9] # call.arg
           /\ ticker_refdata[s][6] = ret.args[1]

(* C2 as stated: the duplicate error of a merge references the index file  *)
(* the symbol was loaded from and the index file being merged.             *)
C2_ErrorNamesIndexFiles ==
    (IsMerge /\ ret.exc = "RuntimeError") =>
        /\ \E s \in DOMAIN ticker_refdata :
               ret.args[1] = ticker_refdata[s][9]
        /\ ret.args[2] = call.arg

(* C2, amended: the duplicate error of a merge carries two data-file       *)
(* paths, the one of the record already in the index and the one of the    *)
(* record being merged; each is F<n>.dat or F<n>.mwd in the directory of   *)
(* its index file, and is not the path of that index file.                 *)
C2_ErrorNamesDataFiles ==
    (IsMerge /\ ret.exc = "RuntimeError") =>
        /\ Len(ret.args) = 2
        /\ \E s \in DOMAIN ticker_refdata :
               /\ ret.args[1] = ticker_refdata[s][6]
               /\ dirname(ret.args[1]) = dirname(ticker_refdata[s][9])
               /\ ret.args[1] # ticker_refdata[s][9]
        /\ dirname(ret.args[2]) = dirname(call.arg)
        /\ ret.args[2].base \in {FDat(n) : n \in 0..255} \cup
                                {FMwd(n) : n \in 0..255}
        /\ ret.args[2] # call.arg

\* C2's case: two index files define the same symbol and the second merge
\* has failed on it
C2_Witness ==
    /\ IsMerge
    /\ ret.exc = "RuntimeError"
    /\ \E s \in DOMAIN ticker_refdata :
           /\ ticker_refdata[s][9] # call.arg
           /\ ticker_refdata[s][6] = ret.args[1]
           /\ dirname(ret.args[1]) # dirname(ret.args[2])

(* C3: a merge of a path that is in master_files fails with the            *)
(* already-read error and changes nothing of the catalog.                  *)
C3_AlreadyLoaded ==
    [][ ( /\ call'.op \in {"read_emaster_file", "read_xmaster_file"}
          /\ call'.arg \in Range(master_files) )
        => ( /\ ret'.exc = "Exception"
             /\ ret'.site = "has already been read"
             /\ ret'.args = <<call'.arg>>
             /\ UNCHANGED catvars ) ]_vars

\* C3's case: a path read by one reader has been refused by the other
C3_Witness ==
    /\ call.op = "read_xmaster_file"
    /\ call.arg \in Range(master_files)
    /\ ret.site = "has already been read"
    /\ \E s \in DOMAIN ticker_refdata :
           /\ ticker_refdata[s][9] = call.arg
           /\ ticker_refdata[s][6].base = FDat(1)

\* what the claim's order of resolution gives for an identifier
C4_Expected(id) ==
    IF id \in DOMAIN ticker_refdata
    THEN Ok(ticker_refdata[id])
    ELSE IF id \in DOMAIN name_tickers /\ Len(name_tickers[id]) = 1
    THEN Ok(ticker_refdata[name_tickers[id][1]])
    ELSE IF id \in DOMAIN name_tickers /\ Len(name_tickers[id]) >= 2
    THEN Raise("LookupError", "Multiple Tickers",
               <<id, StrJoin(<<32, 45, 32>>, name_tickers[id])>>)
    ELSE Raise("LookupError", "does not correspond", <<id>>)

(* C4: get_reference_data resolves an identifier as a ticker first, then   *)
(* as a name bound to one ticker, then fails as ambiguous for a name bound *)
(* to several tickers, naming every ticker whose record carries that name, *)
(* and otherwise fails as not found.                                       *)
C4_LookupOrder ==
    (call.op = "get_reference_data") =>
        /\ ret = C4_Expected(call.arg)
        /\ (ret.exc = "LookupError" /\ ret.site = "Multiple Tickers") =>
               /\ call.arg \notin DOMAIN ticker_refdata
               /\ Range(name_tickers[call.arg]) =
                      {s \in DOMAIN ticker_refdata :
                           ticker_refdata[s][2] = call.arg}
               /\ Cardinality(Range(name_tickers[call.arg])) >= 2
        /\ (ret.exc = "LookupError" /\ ret.site = "does not correspond") =>
               /\ call.arg \notin DOMAIN ticker_refdata
               /\ \A s \in DOMAIN ticker_refdata :
                      ticker_refdata[s][2] # call.arg

\* C4's case: the identifier is a ticker and also the name of another
\* ticker, and the ticker's own record was returned
C4_Witness ==
    /\ call.op = "get_reference_data"
    /\ call.arg \in DOMAIN ticker_refdata
    /\ call.arg \in DOMAIN name_tickers
    /\ name_tickers[call.arg] # <<call.arg>>
    /\ ret.exc = "none"
    /\ ret.value[1] = call.arg

\* the symbols carrying a name, in the order their records were inserted
SymbolsNamed(name) ==
    LET Carries(s) == ticker_refdata[s][2] = name
    IN  SelectSeq(ticker_keys, Carries)

(* C5: the name index maps every name some record carries, and no other,   *)
(* to the list of all symbols carrying it in the order the records were    *)
(* encountered; get_tickers returns that list, and fails with the          *)
(* not-found error for a name no record carries.                           *)
C5_NamesAccumulate ==
    /\ DOMAIN name_tickers =
           {ticker_refdata[s][2] : s \in DOMAIN ticker_refdata}
    /\ \A name \in DOMAIN name_tickers :
           name_tickers[name] = SymbolsNamed(name)
    /\ (call.op = "get_tickers") =>
           IF \E s \in DOMAIN ticker_refdata : ticker_refdata[s][2] = call.arg
           THEN ret = Ok(SymbolsNamed(call.arg))
           ELSE /\ ret.exc = "LookupError"
                /\ ret.site = "No asset with name"

\* C5's case: get_tickers returned the two symbols that share a name, the
\* second of which came from another index file than the first
C5_Witness ==
    /\ call.op = "get_tickers"
    /\ ret.exc = "none"
    /\ Len(ret.value) = 2
    /\ ticker_refdata[ret.value[1]][9] # ticker_refdata[ret.value[2]][9]
    /\ Len(master_files) = 2

\* ascending by code point, no entry twice
Ascending(seq) == \A i \in 1..(Len(seq) - 1) : LexLess(seq[i], seq[i + 1])

Reverse(seq) == [i \in 1..Len(seq) |-> seq[Len(seq) + 1 - i]]

(* C6: tickers returns the keys of the ticker index, each once, ascending  *)
(* by code point ("AB" before "B"), and names the keys of the name index   *)
(* ("A" before "AB"); the keys in another insertion order give the same    *)
(* result.                                                                 *)
C6_SortedListing ==
    /\ (call.op = "tickers") =>
           /\ ret.exc = "none"
           /\ Range(ret.value) = DOMAIN ticker_refdata
           /\ Len(ret.value) = Cardinality(DOMAIN ticker_refdata)
           /\ Ascending(ret.value)
           /\ (DOMAIN ticker_refdata = {sAB, sB}) => ret.value = <<sAB, sB>>
           /\ ret.value = tickers([Catalog EXCEPT !.tk = Reverse(@)])
    /\ (call.op = "names") =>
           /\ ret.exc = "none"
           /\ Range(ret.value) = DOMAIN name_tickers
           /\ Len(ret.value) = Cardinality(DOMAIN name_tickers)
           /\ Ascending(ret.value)
           /\ (DOMAIN name_tickers = {sA, sAB}) => ret.value = <<sA, sAB>>
           /\ ret.value = names([Catalog EXCEPT !.nk = Reverse(@)])

\* C6's case: files merged so that B was inserted before AB, and tickers
\* returned AB before B
C6_Witness ==
    /\ call.op = "tickers"
    /\ ticker_keys = <<sB, sAB>>
    /\ Len(master_files) = 2
    /\ ret.value = <<sAB, sB>>

----------------------------------------------------------------------------
(* Properties of get_raw_data, checked under SpecReader.                   *)

\* a get_raw_data call that opened its data file has returned or raised
Finished == call.op = "get_raw_data" /\ pc = "idle" /\ opens = 1

\* the bars of D1 and D2 decoded by hand: 2020-01-15, 10.5, 10.5, 4.0,
\* 4.0, 1000.0, 0.0 and 1900-01-01 (the sentinel), 4.0, 4.0, -2.0, -2.0,
\* 0.0, 1000.0, the floats as IEEE singles
BarD1 ==
    << <<2020, 1, 15>>, <<0, 0, 40, 65>>, <<0, 0, 40, 65>>,
       <<0, 0, 128, 64>>, <<0, 0, 128, 64>>, <<0, 0, 122, 68>>,
       <<0, 0, 0, 0>> >>
BarD2 ==
    << <<1900, 1, 1>>, <<0, 0, 128, 64>>, <<0, 0, 128, 64>>,
       <<0, 0, 0, 192>>, <<0, 0, 0, 192>>, <<0, 0, 0, 0>>,
       <<0, 0, 122, 68>> >>

\* D3 carries month 13 and decodes to no bar
Decodable(rec) == rec \in {D1, D2}
HandDecode(rec) == IF rec = D1 THEN BarD1 ELSE BarD2

\* the file is a header and complete records with decodable dates
CleanBody(file) ==
    /\ Len(file.header) = 2
    /\ file.header[2] >= 1
    /\ file.tail = 0
    /\ \A i \in 1..Len(file.recs) : Decodable(file.recs[i])

\* the call returned header[2] - 1 bars, bar i the decode of record i
YieldsDeclared(file) ==
    /\ ret.exc = "none"
    /\ Len(ret.value) = file.header[2] - 1
    /\ \A i \in 1..Len(ret.value) :
           /\ i <= Len(file.recs)
           /\ ret.value[i] = HandDecode(file.recs[i])

(* C7 as stated: for a header that declares N records the call yields N-1  *)
(* bars, bar i the decode of the i-th record, whatever number of complete  *)
(* records the body holds.                                                 *)
C7_AnyBody ==
    (Finished /\ CleanBody(datafile)) => YieldsDeclared(datafile)

(* C7, amended: for a header that declares N >= 1 records and a body of    *)
(* exactly N-1 complete records with decodable dates and nothing after     *)
(* them, the call yields exactly N-1 bars, bar i the decode of the i-th    *)
(* record, so that the last bar is the decode of the file's final record.  *)
C7_DeclaredBody ==
    (/\ Finished
     /\ CleanBody(datafile)
     /\ Len(datafile.recs) = datafile.header[2] - 1)
        => /\ YieldsDeclared(datafile)
           /\ Len(ret.value) = Len(datafile.recs)
           /\ Len(ret.value) >= 1 =>
                  ret.value[Len(ret.value)] =
                      HandDecode(datafile.recs[Len(datafile.recs)])

\* C7's case: the header declares 3, the body holds D1 then D2, and the
\* call returned two bars, the last the decode of D2
C7_Witness ==
    /\ Finished
    /\ datafile.header = <<0, 3>>
    /\ datafile.recs = <<D1, D2>>
    /\ datafile.tail = 0
    /\ ret.exc = "none"
    /\ ret.value = <<BarD1, BarD2>>

(* C8: a read that returns a partial record makes the call fail with the   *)
(* record-length assertion and hand no bars to the caller, so no call on a *)
(* file that ends with a partial record returns bars; the call returns     *)
(* normally only after a zero-length read that follows the last complete   *)
(* record.                                                                 *)
C8_Truncation ==
    Finished =>
        /\ (buf = "short") <=>
               (ret.exc = "AssertionError" /\ ret.site = "record_len")
        /\ (buf = "short") =>
               /\ datafile.tail > 0
               /\ reads = Len(datafile.recs) + 1
               /\ ret.value = <<>>
        /\ (datafile.tail > 0) => (ret.exc # "none" /\ ret.value = <<>>)
        /\ (ret.exc = "none") <=> (buf = "empty")
        /\ (buf = "empty") =>
               /\ datafile.tail = 0
               /\ reads = Len(datafile.recs) + 1
               /\ rec_num = Len(datafile.recs)

\* C8's case: two records were decoded and stored, the third read came
\* back short, and the call failed instead of returning the two bars
C8_Witness ==
    /\ Finished
    /\ datafile.tail > 0
    /\ rec_num = 2
    /\ ohlc_data = <<BarD1, BarD2>>
    /\ ret.exc = "AssertionError"
    /\ ret.value = <<>>

\* the caller holds the first bar of the call
HasFirstBar ==
    /\ call.op = "get_raw_data"
    /\ ret.exc = "none"
    /\ Len(ret.value) >= 1

(* C9 as stated: the first bar is handed to the caller before the reader   *)
(* reads the records after it: once the reader has stored the first bar    *)
(* and gone on, the caller holds that bar.                                 *)
C9_Lazy ==
    (call.op = "get_raw_data" /\ pc = "loop" /\ rec_num >= 1) => HasFirstBar

(* C9, amended: get_raw_data hands over the bars all at once: the caller   *)
(* holds bars only when the call has returned, after every record of the   *)
(* file has been read and stored, the zero-length read has been seen and   *)
(* the file has been closed; while the reader runs the caller holds none.  *)
C9_Eager ==
    /\ (call.op = "get_raw_data" /\ ret.exc = "none") =>
           /\ pc = "idle"
           /\ opens = 1
           /\ handle = "closed"
           /\ buf = "empty"
           /\ reads = Len(datafile.recs) + 1
           /\ rec_num = Len(datafile.recs)
           /\ ret.value = ohlc_data
    /\ (pc # "idle") => ret = Pending

\* C9's case: the caller holds two bars, and the reader had read both
\* records and the end of the file by then
C9_Witness ==
    /\ HasFirstBar
    /\ Len(ret.value) = 2
    /\ reads = 3
    /\ pc = "idle"

(* C10: a get_raw_data call that reaches its data file opens it once, and  *)
(* whenever control is with the caller the handle is closed, whichever way *)
(* the call ended; the handle is open only while the call runs.            *)
C10_HandleClosed ==
    /\ opens \in {0, 1}
    /\ (pc = "idle") => handle = "closed"
    /\ (pc # "idle") => (handle = "open" /\ opens = 1)
    /\ (call.op = "get_raw_data" /\ pc = "idle" /\ datafile # NoFile) =>
           opens = 1
    /\ (call.op = "get_raw_data" /\ pc = "idle" /\ datafile = NoFile) =>
           /\ opens = 0
           /\ ret.exc \in {"LookupError", "FileNotFoundError"}

\* C10's case: the call left the with block on an invalid date after it
\* had stored a bar, and the handle is closed
C10_Witness ==
    /\ Finished
    /\ ret.exc = "ValueError"
    /\ ret.site = "date"
    /\ rec_num = 1
    /\ handle = "closed"

----------------------------------------------------------------------------
(* Properties of the read side, checked under SpecReads.                   *)

\* the call of get_raw_data that a step starts opens the data file: it is
\* at the header with an open handle, one open, and nothing read or
\* returned yet
OpensAgain ==
    /\ pc' = "header"
    /\ handle' = "open"
    /\ opens' = 1
    /\ reads' = 0
    /\ ohlc_data' = <<>>
    /\ ret' = Pending
    /\ datafile' \in DataFiles

(* C17: get_reference_data, get_tickers, tickers, names, catalog and       *)
(* get_raw_data leave the ticker index, the name index and master_files    *)
(* unchanged whether they return or raise; and get_raw_data keeps no       *)
(* cache: a call that follows one that returned data for the same asset   *)
(* opens the data file again (or fails to open it), and whenever a call    *)
(* returns data that call has opened the file once and read from it.       *)
C17_ReadSideFrame ==
    /\ [][/\ ticker_refdata' = ticker_refdata
          /\ ticker_keys' = ticker_keys
          /\ name_tickers' = name_tickers
          /\ name_keys' = name_keys
          /\ master_files' = master_files]_vars
    /\ [][(pc = "idle" /\ call.op = "get_raw_data" /\ ret.exc = "none"
              /\ call'.op = "get_raw_data" /\ call'.arg = call.arg) =>
             \/ ret'.exc = "FileNotFoundError" /\ opens' = 0
             \/ OpensAgain]_vars
    /\ []((call.op = "get_raw_data" /\ pc = "idle" /\ ret.exc = "none") =>
              (opens = 1 /\ reads >= 1 /\ datafile # NoFile))

\* C17's case: the second of two successive calls for one asset is
\* reading the data file again, with the catalog it started from
C17_Witness ==
    /\ call.op = "get_raw_data"
    /\ again
    /\ pc = "loop"
    /\ handle = "open"
    /\ reads = 1
    /\ master_files = <<P1>>

----------------------------------------------------------------------------
(* Properties of failed merges, checked under Spec.                        *)

\* the last call was a merge of an xmaster file that stopped at the
\* comparison of the header's two file counts
HeaderMismatch ==
    /\ call.op = "read_xmaster_file"
    /\ ret.exc = "AssertionError"
    /\ ret.site = "xmst_files"

(* C16: a merge of an xmaster file whose two header file counts disagree   *)
(* fails at their comparison, before any record is read: the ticker index, *)
(* the name index and master_files are as they were before the call, and   *)
(* so are num_files and max_file_num.                                      *)
C16_HeaderMismatchFrame ==
    [][HeaderMismatch' =>
           /\ ticker_refdata' = ticker_refdata
           /\ ticker_keys' = ticker_keys
           /\ name_tickers' = name_tickers
           /\ name_keys' = name_keys
           /\ master_files' = master_files
           /\ num_files' = num_files
           /\ max_file_num' = max_file_num]_vars

\* C16's case: the merge failed on the header with a catalog that already
\* held a merged file and other counts than the header's
C16_Witness ==
    /\ HeaderMismatch
    /\ master_files # <<>>
    /\ ticker_keys # <<>>
    /\ max_file_num = 1

\* the last call was a merge that failed on a record of its file: on a
\* duplicate symbol, a short record, a date, or two first dates that differ
RecordFailure ==
    /\ IsMerge
    /\ ret.exc # "none"
    /\ ret.site \in {"Duplicate ticker", "record_len", "date", "int",
                     "first_dt_int"}

(* C18 as stated: a merge is all-or-nothing; when read_emaster_file or     *)
(* read_xmaster_file fails on a record of the file, the ticker index, the  *)
(* name index and master_files are exactly as before the merge began.      *)
C18_AllOrNothing ==
    [][RecordFailure' =>
           /\ ticker_refdata' = ticker_refdata
           /\ ticker_keys' = ticker_keys
           /\ name_tickers' = name_tickers
           /\ name_keys' = name_keys
           /\ master_files' = master_files]_vars

\* among records with the symbols syms, of which ok[i] says that record i
\* decodes, record i stops a merge into the present catalog: it does not
\* decode, or its symbol is in the catalog or on an earlier record
StopsAt(syms, ok, i) ==
    \/ ~ok[i]
    \/ syms[i] \in DOMAIN ticker_refdata
    \/ \E j \in 1..(i - 1) : syms[j] = syms[i]

\* how many records precede the first one that stops the merge, given that
\* none before record i does
RECURSIVE MergedFrom(_, _, _)
MergedFrom(syms, ok, i) ==
    IF i > Len(syms) \/ StopsAt(syms, ok, i) THEN i - 1
    ELSE MergedFrom(syms, ok, i + 1)

Merged(syms, ok) == MergedFrom(syms, ok, 1)

\* the outcome res of merging the file f with the symbols syms from the
\* path q: it fails exactly if a record stops it or the file ends on a
\* short record, and in either case the catalog has gained the records
\* before the first one that stops it, bound to q, and nothing else
MergedPrefix(res, f, syms, ok, q) ==
    \E k \in {Merged(syms, ok)} :
        /\ (res.out.exc # "none") <=> (k < Len(syms) \/ f.tail > 0)
        /\ res.cat.tk = ticker_keys \o SubSeq(syms, 1, k)
        /\ \A i \in 1..k : res.cat.tr[syms[i]][9] = q
        /\ \A sym \in DOMAIN ticker_refdata :
               res.cat.tr[sym] = ticker_refdata[sym]

\* every merge the catalog admits next is a merge of a prefix
PrefixMerges ==
    IsRead \/
    \A q \in {r \in Paths : isfile(r) /\ ~AlreadyRead(r)} :
        /\ \A f \in EmasterFiles :
               Len(f.header) = 2 =>
                   MergedPrefix(
                       EmasterLoop(Catalog, f.recs, f.tail, q), f,
                       ESymbols(f),
                       [i \in 1..Len(f.recs) |->
                            EmasterRecord(f.recs[i], q).exc = "none"], q)
        /\ \A f \in XmasterFiles :
               (Len(f.header) = 3 /\ f.header[1] = f.header[2]) =>
                   MergedPrefix(
                       XmasterLoop(Catalog, f.recs, f.tail, q), f,
                       XSymbols(f),
                       [i \in 1..Len(f.recs) |->
                            XmasterRecord(f.recs[i], q).exc = "none"], q)

(* C18, amended: a merge is not all-or-nothing.  When read_emaster_file or *)
(* read_xmaster_file fails on a record of the file, the records before the *)
(* failing one have been inserted and stay in both indexes, the failing    *)
(* record and the ones after it are not inserted, master_files is as it    *)
(* was (the file does not count as merged), and the records the catalog    *)
(* held before are untouched.                                              *)
C18_PrefixStays ==
    /\ [][RecordFailure' =>
              /\ master_files' = master_files
              /\ RecordsKept
              /\ SubSeq(ticker_keys', 1, Len(ticker_keys)) = ticker_keys
              /\ \A i \in (Len(ticker_keys) + 1)..Len(ticker_keys') :
                     ticker_refdata'[ticker_keys'[i]][9] = call'.arg]_vars
    /\ [](PrefixMerges)

\* C18's case: a merge has failed on a date of its second record; its
\* first record is in the catalog, and its path is not in master_files
C18_Witness ==
    /\ RecordFailure
    /\ ret.site = "date"
    /\ ticker_keys = <<sAB>>
    /\ ticker_refdata[sAB][9] = call.arg
    /\ name_tickers[sA] = <<sAB>>
    /\ master_files = <<>>

\* the places <<name, i>> of the name index that hold the symbol sym
Places(sym) ==
    { pl \in UNION { {<<name, i>> : i \in 1..Len(name_tickers[name])} :
                         name \in DOMAIN name_tickers } :
          name_tickers[pl[1]][pl[2]] = sym }

(* C19: in every reachable catalog state, after any sequence of merges     *)
(* that succeeded or failed and of resets, the two indexes agree: the      *)
(* symbols in the lists of the name index are exactly the keys of the      *)
(* ticker index, each symbol is in exactly one place of one list, and that *)
(* list is the one of the name stored in the symbol's own record.          *)
C19_IndexesAgree ==
    /\ UNION { Range(name_tickers[name]) : name \in DOMAIN name_tickers } =
           DOMAIN ticker_refdata
    /\ \A sym \in DOMAIN ticker_refdata :
           /\ Cardinality(Places(sym)) = 1
           /\ \A pl \in Places(sym) : pl[1] = ticker_refdata[sym][2]
    /\ \A name \in DOMAIN name_tickers : name_tickers[name] # <<>>

\* C19's case: a merge into a catalog that held a record failed after it
\* had inserted a record of its own, and the two symbols share one list
C19_Witness ==
    /\ RecordFailure
    /\ Len(ticker_keys) = 2
    /\ ticker_refdata[ticker_keys[1]][9] # call.arg
    /\ ticker_refdata[ticker_keys[2]][9] = call.arg
    /\ Len(name_tickers[ticker_refdata[ticker_keys[1]][2]]) = 2

----------------------------------------------------------------------------
(* Properties of the codecs, checked under SpecCodec.                      *)

\* the call of the named codec has returned or raised
Applied(op) == call.op = op /\ ret # Pending

(* C11: for every 4-byte buffer whose exponent byte is 0, fmsbin2ieee      *)
(* returns exactly 0.0 (the four bytes 00 00 00 00), whatever the three    *)
(* mantissa bytes are, the sign bit of m1 included.                        *)
C11_ZeroExponent ==
    (Applied("fmsbin2ieee") /\ call.arg[4] = 0) => ret = Ok(<<0, 0, 0, 0>>)

\* C11's case: a buffer with every mantissa bit and the sign bit set and a
\* zero exponent byte was decoded to 0.0
C11_Witness ==
    /\ Applied("fmsbin2ieee")
    /\ call.arg = <<255, 255, 255, 0>>
    /\ ret.value = <<0, 0, 0, 0>>

\* the little-endian bytes of the singles 4.0 (0x40800000) and -2.0
\* (0xC0000000)
Four == <<0, 0, 128, 64>>
MinusTwo == <<0, 0, 0, 192>>

(* C12 as stated: the buffer 00 00 80 82 (m3, m2, m1, exponent) decodes to *)
(* the single 4.0, bit pattern 0x40800000.                                 *)
C12_DecodesToFour ==
    (Applied("fmsbin2ieee") /\ call.arg = <<0, 0, 128, 130>>) =>
        ret = Ok(Four)

(* C12, amended: the buffer 00 00 80 82 has the sign bit of m1 set and no  *)
(* other mantissa bit, and decodes to the single -2.0, bit pattern         *)
(* 0xC0000000; the buffer that decodes to 4.0 (0x40800000) is 00 00 00 83. *)
C12_DecodesToMinusTwo ==
    /\ (Applied("fmsbin2ieee") /\ call.arg = <<0, 0, 128, 130>>) =>
           ret = Ok(MinusTwo)
    /\ (Applied("fmsbin2ieee") /\ call.arg = <<0, 0, 0, 131>>) =>
           ret = Ok(Four)

\* C12's case: the buffer 00 00 80 82 was decoded
C12_Witness ==
    /\ Applied("fmsbin2ieee")
    /\ call.arg = <<0, 0, 128, 130>>
    /\ FSign(ret.value) = 1

\* a single that is a whole number v with 1 <= v < 2^28 (and 0.0), and v
PlainInt(f) ==
    \/ f = <<0, 0, 0, 0>>
    \/ /\ f[4] < 128
       /\ FExp(f) \in 127..154
       /\ FExp(f) < 150 =>
              (8388608 + FMant(f)) % Pow2(150 - FExp(f)) = 0
PlainValue(f) ==
    IF f = <<0, 0, 0, 0>> THEN 0
    ELSE IF FExp(f) >= 150
    THEN (8388608 + FMant(f)) * Pow2(FExp(f) - 150)
    ELSE (8388608 + FMant(f)) \div Pow2(150 - FExp(f))

\* what C13 asks of the triple that yyyymmdd splits into
DateOfTriple(yyyymmdd) ==
    LET y == yyyymmdd \div 10000
        m == (yyyymmdd \div 100) % 100
        d == yyyymmdd % 100
    IN  IF <<y, m, d>> = <<1900, 0, 0>> THEN <<"date", <<1900, 1, 1>>>>
        ELSE IF /\ y \in 1..9999
                /\ m \in 1..12
                /\ d >= 1
                /\ d <= (IF m \in {4, 6, 9, 11} THEN 30
                         ELSE IF m # 2 THEN 31
                         ELSE IF y % 4 = 0 /\ (y % 100 # 0 \/ y % 400 = 0)
                         THEN 29 ELSE 28)
        THEN <<"date", <<y, m, d>>>>
        ELSE <<"invalid", <<>>>>

\* the results C13 names, and the ones next to them
DateTable ==
    << <<FZero, "date", <<1900, 1, 1>>>>,
       <<F20200115, "date", <<2020, 1, 15>>>>,
       <<F20201315, "invalid", <<>>>>,
       <<F1, "invalid", <<>>>>,
       <<F100, "invalid", <<>>>>,
       <<F101, "date", <<1900, 1, 1>>>>,
       <<F20200229, "date", <<2020, 2, 29>>>>,
       <<F20190229, "invalid", <<>>>>,
       <<F19991231, "date", <<1999, 12, 31>>>>,
       <<F99991224, "date", <<9999, 12, 24>>>>,
       <<F100000104, "invalid", <<>>>> >>

\* the call ended as the pair <<kind, date>> says
EndsAs(kind, ymd) ==
    IF kind = "date" THEN ret = Ok(ymd)
    ELSE /\ ret.exc = "ValueError"
         /\ ret.site = "date"
         /\ ret.value = <<>>

(* C13: fmsfloat2date splits yyyymmdd = v + 19000000 into year, month and  *)
(* day by integer division; it returns 1900-01-01 for the triple           *)
(* (1900, 0, 0), the date (year, month, day) when the triple is a calendar *)
(* date (2020-01-15 for the value 1200115), and raises for every other     *)
(* triple (month 13; month 0 or day 0 outside the sentinel); whatever the  *)
(* input, it returns a calendar date or raises, never a default date.      *)
C13_DateOrError ==
    Applied("fmsfloat2date") =>
        /\ ret.exc \in {"none", "ValueError", "OverflowError"}
        /\ ret.exc = "none" =>
               DateOfTriple(ret.value[1] * 10000 + ret.value[2] * 100
                                + ret.value[3]) = <<"date", ret.value>>
        /\ ret.exc # "none" => ret.value = <<>>
        /\ PlainInt(call.arg) =>
               \E r \in {DateOfTriple(19000000 + PlainValue(call.arg))} :
                   EndsAs(r[1], r[2])
        /\ \A i \in 1..Len(DateTable) :
               call.arg = DateTable[i][1] =>
                   EndsAs(DateTable[i][2], DateTable[i][3])

\* C13's case: the value that splits into month 13 was refused
C13_Witness ==
    /\ Applied("fmsfloat2date")
    /\ call.arg = F20201315
    /\ ret.exc = "ValueError"

\* the other cases of C13: the sentinel and a calendar date were returned
C13_SentinelReached ==
    /\ Applied("fmsfloat2date")
    /\ call.arg = FZero
    /\ ret = Ok(<<1900, 1, 1>>)
C13_DateReached ==
    /\ Applied("fmsfloat2date")
    /\ call.arg = F20200115
    /\ ret = Ok(<<2020, 1, 15>>)

(* C14 as stated: for every buffer <<m3, m2, m1, e>> with e in 1..255 the  *)
(* IEEE word has its sign bit equal to bit 7 of m1, its exponent field     *)
(* equal to e - 2 (as 8 bits), and its mantissa equal to the low 7 bits of *)
(* m1 followed by m2 and m3; no field spills into another.                 *)
C14_FieldsExact ==
    (Applied("fmsbin2ieee") /\ call.arg[4] \in 1..255) =>
        /\ FSign(ret.value) = call.arg[3] \div 128
        /\ FExp(ret.value) = (call.arg[4] - 2) % 256
        /\ FMant(ret.value) =
               (call.arg[3] % 128) * 65536 + call.arg[2] * 256 + call.arg[1]

\* the same for the exponent bytes 2..255, where the code keeps the fields
\* apart
C14_FieldsExactFrom2 ==
    (Applied("fmsbin2ieee") /\ call.arg[4] \in 2..255) =>
        /\ FSign(ret.value) = call.arg[3] \div 128
        /\ FExp(ret.value) = call.arg[4] - 2
        /\ FMant(ret.value) =
               (call.arg[3] % 128) * 65536 + call.arg[2] * 256 + call.arg[1]

\* C14's failing case: exponent byte 1 with the sign bit of m1 clear gave a
\* word with the sign bit set
C14_SignForced ==
    /\ Applied("fmsbin2ieee")
    /\ call.arg = <<0, 0, 0, 1>>
    /\ ret.value = <<0, 0, 128, 255>>

\* the bytes of c_string before its first NUL, all of it if it has none
BeforeFirstNul(c_string) ==
    IF \E i \in 1..Len(c_string) : c_string[i] = NUL
    THEN SubSeq(c_string, 1,
                (CHOOSE i \in 1..Len(c_string) :
                     /\ c_string[i] = NUL
                     /\ \A j \in 1..(i - 1) : c_string[j] # NUL) - 1)
    ELSE c_string

(* C15 as stated: for every fixed-width string field of an index record    *)
(* (widths 21, 15, 28, 32, 53) strip_null returns exactly the bytes before *)
(* the first NUL of the field, and a field with no NUL is returned whole.  *)
C15_StripAtNul ==
    Applied("strip_null") => ret = Ok(BeforeFirstNul(call.arg))

\* the same for the fields that hold a NUL
C15_StripAtNulPresent ==
    (Applied("strip_null") /\ \E i \in 1..Len(call.arg) : call.arg[i] = NUL)
        => ret = Ok(BeforeFirstNul(call.arg))

\* C15's failing case: a 21-byte symbol field with no NUL came back one
\* byte short
C15_LastByteLost ==
    /\ Applied("strip_null")
    /\ call.arg = [i \in 1..ESymbolLen |-> 65]
    /\ ret.value = [i \in 1..(ESymbolLen - 1) |-> 65]

=============================================================================
